---- MODULE Spec2Model ----
(***************************************************************************)
(* A model of src/main.rs: the adjacency builder, the random pair sampler, *)
(* breadth-first distances, depth-first connected components and the       *)
(* average degree.  HashMap values are functions (their DOMAIN is the key  *)
(* set), HashSet values are sets, Vec and VecDeque values are sequences.   *)
(* The iteration order of a HashSet or of HashMap::keys is unspecified, so *)
(* every loop over one takes its elements in any order.                    *)
(***************************************************************************)
EXTENDS Integers, Sequences, FiniteSets, TLC

\* ------------------------------------------------------------- bounds

MaxVertex == 3
MaxEdges == 3
MaxNodes == 3
MaxPairs == 2

Vertices == 1..MaxVertex
Edges == Vertices \X Vertices
EdgeLists == UNION {[1..n -> Edges] : n \in 0..MaxEdges}

\* ------------------------------------------------------ map utilities

EmptyMap == [x \in {} |-> {}]

MapPut(m, k, v) == [x \in (DOMAIN m) \cup {k} |-> IF x = k THEN v ELSE m[x]]

\* graph.get(&k).unwrap_or(&HashSet::new())
NeighborsOrEmpty(g, k) == IF k \in DOMAIN g THEN g[k] ELSE {}

\* --------------------------------------------------- adjacency builder

\* a variant that replaces the neighbour set instead of adding to it
EntryInsert_overwrite(adj, a, b) == MapPut(adj, a, {b})

\* entry(a).or_insert_with(HashSet::new).insert(b)
EntryInsert(adj, a, b) == MapPut(adj, a, NeighborsOrEmpty(adj, a) \cup {b})

\* a variant that records the edge in one direction only
insert_edge_one_way(adj, u, v) == EntryInsert(adj, u, v)

\* the body of the loop of build_adjacency_list, for one edge (u, v)
insert_edge(adj, u, v) == EntryInsert(EntryInsert(adj, u, v), v, u)

RECURSIVE build_from(_, _, _)
build_from(adj, edges, i) ==
    IF i > Len(edges) THEN adj
    ELSE build_from(insert_edge(adj, edges[i][1], edges[i][2]), edges, i + 1)

build_adjacency_list(edges) == build_from(EmptyMap, edges, 1)

\* the edge list of tests::run_tests1 and tests::run_tests2
test_edges == << <<1, 2>>, <<2, 3>>, <<3, 4>>, <<4, 5>>, <<5, 6>> >>

TestGraph == build_adjacency_list(test_edges)

BuiltGraphs == {build_adjacency_list(es) : es \in EdgeLists}

\* Adjacency structures that no edge list produces: any map from some
\* vertices to sets of vertices, with at most MaxEdges neighbour entries.
Entries(g) == {<<u, v>> \in (DOMAIN g) \X Vertices : v \in g[u]}

AnyGraphs ==
    {g \in UNION {[K -> SUBSET Vertices] : K \in SUBSET Vertices} :
        Cardinality(Entries(g)) <= MaxEdges}

AllVertices == Vertices \cup {e[1] : e \in {test_edges[i] : i \in 1..Len(test_edges)}}
                        \cup {e[2] : e \in {test_edges[i] : i \in 1..Len(test_edges)}}

\* ------------------------------------------------------ degree statistics

RECURSIVE GCD(_, _)
GCD(a, b) == IF b = 0 THEN a ELSE GCD(b, a % b)

\* a as f64 / b as f64 for small non-negative integers: 0/0 is NaN, x/0 is
\* infinite, and otherwise the quotient is the rational a/b correctly
\* rounded, which the fraction in lowest terms identifies.
F64Div(a, b) ==
    IF b = 0
    THEN [kind |-> IF a = 0 THEN "NaN" ELSE "inf", num |-> 0, den |-> 0]
    ELSE [kind |-> "finite", num |-> a \div GCD(a, b), den |-> b \div GCD(a, b)]

\* a / b on usize: division by zero panics
UsizeDiv(a, b) ==
    IF b = 0
    THEN [kind |-> "panic", num |-> 0, den |-> 0]
    ELSE [kind |-> "finite", num |-> a \div b, den |-> 1]

\* graph.values().map(|neighbors| neighbors.len()).sum()
RECURSIVE SumLens(_, _)
SumLens(g, keys) ==
    IF keys = {} THEN 0
    ELSE LET k == CHOOSE x \in keys : TRUE
         IN Cardinality(g[k]) + SumLens(g, keys \ {k})

\* a variant that divides the integers before converting
average_degree_usize(g) == UsizeDiv(SumLens(g, DOMAIN g), Cardinality(DOMAIN g))

\* a variant that divides by the number of all vertices, keys or not
average_degree_all_vertices(g) == F64Div(SumLens(g, DOMAIN g), MaxVertex)

\* total_degree as f64 / num_nodes, with num_nodes = graph.len() as f64
average_degree(g) == F64Div(SumLens(g, DOMAIN g), Cardinality(DOMAIN g))

\* ---------------------------------------------------------------- state

VARIABLES
    pc,            \* the statement the program is at
    edge_list,     \* build_adjacency_list: edges
    edge_ix,       \* build_adjacency_list: position of the for loop in edges
    graph,         \* the adjacency list (adjacency_list while it is built)
    nodes,         \* pair_up_nodes: nodes
    num_pairs,     \* pair_up_nodes: num_pairs
    pairs,         \* pair_up_nodes: pairs
    pending,       \* main: the start vertices bfs_distances is still to be called with
    results,       \* main: start vertex -> the map bfs_distances returned for it
    start,         \* bfs_distances: start
    queue,         \* bfs_distances: queue
    visited,       \* bfs_distances: visited
    distances,     \* bfs_distances: distances
    distance,      \* bfs_distances: distance (of current)
    neighbors,     \* the neighbours the running for loop has not yet taken
    push_count,    \* history: vertex -> number of queue.push_back calls of this run
    cn_visited,    \* connected_nodes: visited
    components,    \* connected_nodes: components
    keys_left,     \* connected_nodes: the keys the for loop has not yet taken
    component,     \* connected_nodes: component
    stack,         \* dfs: stack
    avg_degree     \* main: avg_degree

vars == <<pc, edge_list, edge_ix, graph, nodes, num_pairs, pairs, pending, results,
          start, queue, visited, distances, distance, neighbors, push_count,
          cn_visited, components, keys_left, component, stack, avg_degree>>

buildVars == <<edge_list, edge_ix>>
pairVars == <<nodes, num_pairs, pairs>>
bfsVars == <<start, queue, visited, distances, distance, neighbors, push_count>>
cnVars == <<cn_visited, components, keys_left, component, stack>>

NoAverage == [kind |-> "none", num |-> 0, den |-> 0]
NoPushes == [v \in AllVertices |-> 0]

BuildIdle == edge_list = <<>> /\ edge_ix = 1
PairIdle == nodes = <<>> /\ num_pairs = 0 /\ pairs = <<>>
BfsIdle ==
    /\ start = 0 /\ queue = <<>> /\ visited = {} /\ distances = EmptyMap
    /\ distance = 0 /\ neighbors = {} /\ push_count = NoPushes
CnIdle ==
    /\ cn_visited = {} /\ components = <<>> /\ keys_left = {}
    /\ component = {} /\ stack = <<>>
MainIdle == pending = {} /\ results = EmptyMap /\ avg_degree = NoAverage

\* ------------------------------------------- build_adjacency_list, stepwise

InitBuild ==
    /\ pc = "build"
    /\ edge_list \in EdgeLists
    /\ edge_ix = 1
    /\ graph = EmptyMap
    /\ PairIdle /\ MainIdle /\ BfsIdle /\ CnIdle

\* one iteration of `for &(u, v) in edges`
BuildEdge ==
    /\ pc = "build"
    /\ edge_ix <= Len(edge_list)
    /\ graph' = insert_edge(graph, edge_list[edge_ix][1], edge_list[edge_ix][2])
    /\ edge_ix' = edge_ix + 1
    /\ UNCHANGED <<pc, edge_list, pairVars, pending, results, bfsVars, cnVars, avg_degree>>

\* the loop is over: the adjacency list is returned
BuildReturn ==
    /\ pc = "build"
    /\ edge_ix > Len(edge_list)
    /\ pc' = "built"
    /\ UNCHANGED <<buildVars, graph, pairVars, pending, results, bfsVars, cnVars, avg_degree>>

NextBuild == BuildEdge \/ BuildReturn

SpecBuild == InitBuild /\ [][NextBuild]_vars

EdgeSet == {edge_list[i] : i \in 1..Len(edge_list)}

\* C4: the list returned by build_adjacency_list has v among the neighbours
\* of u exactly when (u, v) or (v, u) is in the edge list; so it is symmetric,
\* its keys are the endpoints of the edges, no key has an empty neighbour
\* set, and an empty edge list gives an empty structure.
C4_BuildExact ==
    pc = "built" =>
        /\ \A u, v \in Vertices :
              (u \in DOMAIN graph /\ v \in graph[u])
                  <=> (<<u, v>> \in EdgeSet \/ <<v, u>> \in EdgeSet)
        /\ \A u, v \in Vertices :
              (v \in NeighborsOrEmpty(graph, u)) <=> (u \in NeighborsOrEmpty(graph, v))
        /\ DOMAIN graph = {e[1] : e \in EdgeSet} \cup {e[2] : e \in EdgeSet}
        /\ \A u \in DOMAIN graph : graph[u] # {} /\ graph[u] \subseteq Vertices
        /\ (edge_list = <<>> => graph = EmptyMap)
        /\ graph = build_adjacency_list(edge_list)

\* a list with a duplicate edge and a self-loop has been built
C4_Witness ==
    /\ pc = "built"
    /\ Len(edge_list) = 3
    /\ edge_list[1] = edge_list[2]
    /\ edge_list[1][1] # edge_list[1][2]
    /\ edge_list[3][1] = edge_list[3][2]

\* ------------------------------------------------------- pair_up_nodes

NodeLists == UNION {[1..n -> Vertices] : n \in 0..MaxNodes}

Min(a, b) == IF a < b THEN a ELSE b

\* a variant that may take the same position twice
choose_with_replacement(xs, amount) ==
    {[k \in 1..Min(amount, Len(xs)) |-> xs[ix[k]]] :
        ix \in [1..Min(amount, Len(xs)) -> 1..Len(xs)]}

\* xs.choose_multiple(&mut rng, amount).cloned().collect(): the elements at
\* min(amount, xs.len()) distinct positions of xs, in any order; every such
\* choice is one the random number generator can make.
choose_multiple(xs, amount) ==
    {[k \in 1..Min(amount, Len(xs)) |-> xs[ix[k]]] :
        ix \in {f \in [1..Min(amount, Len(xs)) -> 1..Len(xs)] :
                   \A j, k \in DOMAIN f : j # k => f[j] # f[k]}}

InitPairs ==
    /\ pc = "pair_loop"
    /\ nodes \in NodeLists
    /\ num_pairs \in 0..MaxPairs
    /\ pairs = <<>>
    /\ graph = EmptyMap
    /\ BuildIdle /\ MainIdle /\ BfsIdle /\ CnIdle

\* one iteration of `while pairs.len() < num_pairs`; selected_nodes[0] and
\* selected_nodes[1] panic (index out of bounds) when fewer than two
\* elements were selected
PairIter ==
    /\ pc = "pair_loop"
    /\ Len(pairs) < num_pairs
    /\ \E selected_nodes \in choose_multiple(nodes, 2) :
          IF Len(selected_nodes) < 2
          THEN pc' = "pair_panic" /\ pairs' = pairs
          ELSE /\ pairs' = Append(pairs, <<selected_nodes[1], selected_nodes[2]>>)
               /\ pc' = pc
    /\ UNCHANGED <<nodes, num_pairs, buildVars, graph, pending, results, bfsVars, cnVars,
                   avg_degree>>

\* the loop condition fails: pairs is returned
PairReturn ==
    /\ pc = "pair_loop"
    /\ Len(pairs) >= num_pairs
    /\ pc' = "pair_done"
    /\ UNCHANGED <<pairVars, buildVars, graph, pending, results, bfsVars, cnVars, avg_degree>>

NextPairs == PairIter \/ PairReturn

SpecPairs == InitPairs /\ [][NextPairs]_vars

\* the loop runs without suspension: an iteration that can run does run
FairSpecPairs == SpecPairs /\ WF_vars(NextPairs)

DistinctNodes == \A i, j \in 1..Len(nodes) : i # j => nodes[i] # nodes[j]
NodeSet == {nodes[i] : i \in 1..Len(nodes)}

\* C5: with fewer than 2 vertices and num_pairs >= 1, pair_up_nodes ends in
\* an explicit InsufficientVertices failure and never in a crash.
C5_ExplicitFailure ==
    (Len(nodes) < 2 /\ num_pairs >= 1) =>
        /\ pc # "pair_panic"
        /\ (pc # "pair_loop" => pc = "pair_insufficient_vertices")

C6_Pre == Len(nodes) >= 2 /\ DistinctNodes

C6_Post ==
    /\ Len(pairs) = num_pairs
    /\ \A i \in 1..Len(pairs) :
          /\ pairs[i][1] \in NodeSet
          /\ pairs[i][2] \in NodeSet
          /\ pairs[i][1] # pairs[i][2]

\* C6: on at least 2 pairwise distinct vertices pair_up_nodes terminates,
\* whatever is drawn, and returns exactly num_pairs pairs (a, b) of members
\* of the list with a # b; it never panics on the way.
C6_PairsContract ==
    /\ [](C6_Pre => pc # "pair_panic")
    /\ [](C6_Pre /\ pc = "pair_done" => C6_Post)
    /\ (C6_Pre ~> (pc = "pair_done"))

\* two pairs were returned from distinct vertices, and the same pair recurs
C6_Witness ==
    /\ C6_Pre
    /\ pc = "pair_done"
    /\ num_pairs = 2
    /\ Len(pairs) = 2
    /\ pairs[1] = pairs[2]

\* ------------------------------------------------------- bfs_distances

\* a variant without visited.insert(start)
BfsStart_no_visited_insert(s) ==
    /\ pc = "main_bfs"
    /\ s \in pending
    /\ pending' = pending \ {s}
    /\ start' = s
    /\ queue' = <<s>>
    /\ visited' = {}
    /\ distances' = MapPut(EmptyMap, s, 0)
    /\ push_count' = [NoPushes EXCEPT ![s] = 1]
    /\ pc' = "bfs_while"
    /\ UNCHANGED <<distance, neighbors, results, buildVars, graph, pairVars, cnVars,
                   avg_degree>>

\* a variant without distances.insert(start, 0)
BfsStart_no_distance_insert(s) ==
    /\ pc = "main_bfs"
    /\ s \in pending
    /\ pending' = pending \ {s}
    /\ start' = s
    /\ queue' = <<s>>
    /\ visited' = {s}
    /\ distances' = EmptyMap
    /\ push_count' = [NoPushes EXCEPT ![s] = 1]
    /\ pc' = "bfs_while"
    /\ UNCHANGED <<distance, neighbors, results, buildVars, graph, pairVars, cnVars,
                   avg_degree>>

\* main calls bfs_distances(&adjacency_list, s); the function creates its
\* three collections and enters the start vertex into each
BfsStart(s) ==
    /\ pc = "main_bfs"
    /\ s \in pending
    /\ pending' = pending \ {s}
    /\ start' = s
    /\ queue' = <<s>>
    /\ visited' = {s}
    /\ distances' = MapPut(EmptyMap, s, 0)
    /\ push_count' = [NoPushes EXCEPT ![s] = 1]
    /\ pc' = "bfs_while"
    /\ UNCHANGED <<distance, neighbors, results, buildVars, graph, pairVars, cnVars,
                   avg_degree>>

\* `while let Some(current) = queue.pop_front()` with a non-empty queue:
\* current's distance is read and the for loop over its neighbours begins
BfsPop ==
    /\ pc = "bfs_while"
    /\ queue # <<>>
    /\ LET current == Head(queue) IN
          /\ queue' = Tail(queue)
          /\ distance' = IF current \in DOMAIN distances THEN distances[current] ELSE 0
          /\ neighbors' = NeighborsOrEmpty(graph, current)
          /\ pc' = IF NeighborsOrEmpty(graph, current) = {} THEN "bfs_while" ELSE "bfs_for"
    /\ UNCHANGED <<start, visited, distances, push_count, pending, results, buildVars,
                   graph, pairVars, cnVars, avg_degree>>

\* one iteration of `for &neighbor in ...`
BfsVisit ==
    /\ pc = "bfs_for"
    /\ \E neighbor \in neighbors :
          /\ neighbors' = neighbors \ {neighbor}
          /\ pc' = IF neighbors \ {neighbor} = {} THEN "bfs_while" ELSE "bfs_for"
          /\ IF neighbor \notin visited
             THEN /\ visited' = visited \cup {neighbor}
                  /\ distances' = MapPut(distances, neighbor, distance + 1)
                  /\ queue' = Append(queue, neighbor)
                  /\ push_count' = [push_count EXCEPT ![neighbor] = @ + 1]
             ELSE UNCHANGED <<visited, distances, queue, push_count>>
    /\ UNCHANGED <<start, distance, pending, results, buildVars, graph, pairVars, cnVars,
                   avg_degree>>

\* the queue is empty: distances is returned to main and the other
\* collections are dropped
BfsReturn ==
    /\ pc = "bfs_while"
    /\ queue = <<>>
    /\ results' = MapPut(results, start, distances)
    /\ pc' = "main_bfs"
    /\ start' = 0 /\ queue' = <<>> /\ visited' = {} /\ distances' = EmptyMap
    /\ distance' = 0 /\ neighbors' = {} /\ push_count' = NoPushes
    /\ UNCHANGED <<pending, buildVars, graph, pairVars, cnVars, avg_degree>>

NextBfs ==
    \/ \E s \in pending : BfsStart(s)
    \/ BfsPop
    \/ BfsVisit
    \/ BfsReturn

\* one call of bfs_distances, on an adjacency list an edge list produces, on
\* any other map, or on the list of the repository's test
InitBfs ==
    /\ pc = "main_bfs"
    /\ \/ graph \in BuiltGraphs \cup AnyGraphs /\ \E s \in Vertices : pending = {s}
       \/ graph = TestGraph /\ pending = {1}
    /\ results = EmptyMap
    /\ avg_degree = NoAverage
    /\ BuildIdle /\ PairIdle /\ BfsIdle /\ CnIdle

SpecBfs == InitBfs /\ [][NextBfs]_vars

\* the vertices a walk of at most k edges from s ends at
RECURSIVE Ball(_, _, _)
Ball(g, s, k) ==
    IF k = 0 THEN {s}
    ELSE LET B == Ball(g, s, k - 1)
         IN B \cup UNION {NeighborsOrEmpty(g, u) : u \in B}

Reachable(g, s) == Ball(g, s, Cardinality(AllVertices))

\* the least number of edges of a walk from s to v, for v reachable from s
MinEdges(g, s, v) ==
    CHOOSE k \in 0..Cardinality(AllVertices) :
        /\ v \in Ball(g, s, k)
        /\ \A j \in 0..(k - 1) : v \notin Ball(g, s, j)

\* C1: the map bfs_distances returns has exactly the vertices reachable from
\* the source as keys, each with the least number of edges of a path from the
\* source; the source has 0, a source that is no key gives {source: 0}, and
\* from 1 on the test's path 1-2-3-4-5-6 the map is {1:0,2:1,3:2,4:3,5:4,6:5}.
C1_BfsMinimal ==
    \A s \in DOMAIN results :
        /\ DOMAIN results[s] = Reachable(graph, s)
        /\ \A v \in DOMAIN results[s] : results[s][v] = MinEdges(graph, s, v)
        /\ results[s][s] = 0
        /\ (s \notin DOMAIN graph => results[s] = MapPut(EmptyMap, s, 0))
        /\ (graph = TestGraph /\ s = 1 => results[s] = [v \in 1..6 |-> v - 1])

\* a call has returned a map with a vertex two edges away, on a map that no
\* edge list produces and whose keys are not all reachable from the source
C1_Witness ==
    \E s \in DOMAIN results : \E v \in DOMAIN results[s] :
        /\ results[s][v] = 2
        /\ graph \notin BuiltGraphs
        /\ Reachable(graph, s) # DOMAIN graph

InBfs == pc \in {"bfs_while", "bfs_for"}

\* C10: within a run of bfs_distances every vertex is pushed onto the queue
\* at most once, and a distance once recorded is never changed.
C10_PushOnce ==
    /\ [](\A v \in AllVertices : push_count[v] <= 1)
    /\ [][InBfs /\ InBfs' =>
            \A v \in DOMAIN distances :
                v \in DOMAIN distances' /\ distances'[v] = distances[v]]_vars

\* a run on a graph with a self-loop and a cycle, in which a vertex already
\* visited is met again in a for loop
C10_Witness ==
    /\ pc = "bfs_for"
    /\ start \in NeighborsOrEmpty(graph, start)
    /\ \E v \in neighbors : v \in visited /\ v # start
    /\ Cardinality(visited) = 3

\* ---------------------------------------------- connected_nodes and dfs

\* a variant that calls dfs for every key, visited or not
CnFor_no_visited_check ==
    /\ pc = "cn_for"
    /\ \E node \in keys_left :
          /\ keys_left' = keys_left \ {node}
          /\ component' = {}
          /\ stack' = <<node>>
          /\ pc' = "dfs_while"
    /\ UNCHANGED <<cn_visited, components, neighbors, start, queue, visited, distances,
                   distance, push_count, pending, results, buildVars, graph, pairVars,
                   avg_degree>>

\* a variant that never pushes the neighbours of a node
DfsPop_no_neighbors ==
    /\ pc = "dfs_while"
    /\ stack # <<>>
    /\ LET node == stack[Len(stack)] IN
          /\ stack' = SubSeq(stack, 1, Len(stack) - 1)
          /\ IF node \notin cn_visited
             THEN /\ cn_visited' = cn_visited \cup {node}
                  /\ component' = component \cup {node}
             ELSE UNCHANGED <<cn_visited, component>>
          /\ UNCHANGED <<neighbors, pc>>
    /\ UNCHANGED <<components, keys_left, start, queue, visited, distances, distance,
                   push_count, pending, results, buildVars, graph, pairVars, avg_degree>>

\* main's loop over the pairs is over and it calls connected_nodes, which
\* creates visited and components and starts its loop over graph.keys()
CnStart ==
    /\ pc = "main_bfs"
    /\ pending = {}
    /\ cn_visited' = {}
    /\ components' = <<>>
    /\ keys_left' = DOMAIN graph
    /\ pc' = "cn_for"
    /\ UNCHANGED <<component, stack, bfsVars, pending, results, buildVars, graph, pairVars,
                   avg_degree>>

\* one iteration of `for &node in graph.keys()`: a key not yet visited gets
\* a new component and dfs is called with stack = vec![node]
CnFor ==
    /\ pc = "cn_for"
    /\ \E node \in keys_left :
          /\ keys_left' = keys_left \ {node}
          /\ IF node \notin cn_visited
             THEN /\ component' = {}
                  /\ stack' = <<node>>
                  /\ pc' = "dfs_while"
             ELSE UNCHANGED <<component, stack, pc>>
    /\ UNCHANGED <<cn_visited, components, neighbors, start, queue, visited, distances,
                   distance, push_count, pending, results, buildVars, graph, pairVars,
                   avg_degree>>

\* dfs: `while let Some(node) = stack.pop()` with a non-empty stack; a node
\* not yet visited is marked and put in the component, and if it is a key
\* the for loop over its neighbours begins
DfsPop ==
    /\ pc = "dfs_while"
    /\ stack # <<>>
    /\ LET node == stack[Len(stack)] IN
          /\ stack' = SubSeq(stack, 1, Len(stack) - 1)
          /\ IF node \notin cn_visited
             THEN /\ cn_visited' = cn_visited \cup {node}
                  /\ component' = component \cup {node}
                  /\ IF node \in DOMAIN graph /\ graph[node] # {}
                     THEN neighbors' = graph[node] /\ pc' = "dfs_for"
                     ELSE UNCHANGED <<neighbors, pc>>
             ELSE UNCHANGED <<cn_visited, component, neighbors, pc>>
    /\ UNCHANGED <<components, keys_left, start, queue, visited, distances, distance,
                   push_count, pending, results, buildVars, graph, pairVars, avg_degree>>

\* dfs: one iteration of `for &neighbor in neighbors`
DfsPush ==
    /\ pc = "dfs_for"
    /\ \E neighbor \in neighbors :
          /\ stack' = Append(stack, neighbor)
          /\ neighbors' = neighbors \ {neighbor}
          /\ pc' = IF neighbors \ {neighbor} = {} THEN "dfs_while" ELSE "dfs_for"
    /\ UNCHANGED <<cn_visited, components, keys_left, component, start, queue, visited,
                   distances, distance, push_count, pending, results, buildVars, graph,
                   pairVars, avg_degree>>

\* dfs returns on an empty stack and connected_nodes pushes the component
DfsReturn ==
    /\ pc = "dfs_while"
    /\ stack = <<>>
    /\ components' = Append(components, component)
    /\ component' = {}
    /\ pc' = "cn_for"
    /\ UNCHANGED <<cn_visited, keys_left, stack, bfsVars, pending, results, buildVars,
                   graph, pairVars, avg_degree>>

\* the loop over the keys is over: components is returned to main and
\* visited is dropped
CnReturn ==
    /\ pc = "cn_for"
    /\ keys_left = {}
    /\ cn_visited' = {}
    /\ pc' = "main_avg"
    /\ UNCHANGED <<components, keys_left, component, stack, bfsVars, pending, results,
                   buildVars, graph, pairVars, avg_degree>>

\* main calls average_degree
AverageDegree ==
    /\ pc = "main_avg"
    /\ avg_degree' = average_degree(graph)
    /\ pc' = "exit"
    /\ UNCHANGED <<pending, results, bfsVars, cnVars, buildVars, graph, pairVars>>

NextAnalysis ==
    \/ NextBfs
    \/ CnStart
    \/ CnFor
    \/ DfsPop
    \/ DfsPush
    \/ DfsReturn
    \/ CnReturn
    \/ AverageDegree

\* main after build_adjacency_list: bfs_distances from the start vertices
\* of the sampled pairs (here one pair's two vertices, or one vertex), then
\* connected_nodes, then average_degree
InitAnalysis ==
    /\ pc = "main_bfs"
    /\ graph \in BuiltGraphs
    /\ \E u, v \in Vertices : pending = {u, v}
    /\ results = EmptyMap
    /\ avg_degree = NoAverage
    /\ BuildIdle /\ PairIdle /\ BfsIdle /\ CnIdle

SpecAnalysis == InitAnalysis /\ [][NextAnalysis]_vars

\* distances.get(&end).unwrap_or(&usize::MAX) in main: max tells that the
\* sentinel was returned
distance_or_max(m, end) ==
    IF end \in DOMAIN m
    THEN [max |-> FALSE, hops |-> m[end]]
    ELSE [max |-> TRUE, hops |-> 0]

ComponentsReturned == pc \in {"main_avg", "exit"}

ComponentsOf(v) == {i \in 1..Len(components) : v \in components[i]}

\* C2: the components connected_nodes returns partition the key set: each is
\* non-empty, every key is in exactly one, no two share a vertex, and their
\* union is the key set.
C2_Partition ==
    ComponentsReturned =>
        /\ \A i \in 1..Len(components) : components[i] # {}
        /\ \A v \in DOMAIN graph : Cardinality(ComponentsOf(v)) = 1
        /\ \A i, j \in 1..Len(components) :
              i # j => components[i] \cap components[j] = {}
        /\ UNION {components[i] : i \in 1..Len(components)} = DOMAIN graph

\* connected_nodes has returned two components, one of them of two vertices
C2_Witness ==
    /\ ComponentsReturned
    /\ Len(components) = 2
    /\ \E i \in 1..2 : Cardinality(components[i]) = 2

\* C3: two keys u and v are in the same returned component exactly when
\* bfs_distances from u has a distance for v (main does not fall back to the
\* sentinel); so no vertex outside a component is reached from inside it.
C3_ComponentIffReached ==
    ComponentsReturned =>
        \A u \in (DOMAIN results) \cap (DOMAIN graph) : \A v \in DOMAIN graph :
            (ComponentsOf(u) \cap ComponentsOf(v) # {})
                <=> ~distance_or_max(results[u], v).max

\* both cases with one source u: another key in u's component, hence
\* reached, and a key outside it, hence the sentinel
C3_Witness ==
    /\ ComponentsReturned
    /\ \E u \in (DOMAIN results) \cap (DOMAIN graph) :
          /\ \E v \in DOMAIN graph :
                /\ v # u
                /\ ComponentsOf(u) \cap ComponentsOf(v) # {}
                /\ ~distance_or_max(results[u], v).max
          /\ \E w \in DOMAIN graph : distance_or_max(results[u], w).max

\* C7: on an adjacency list built from an edge list, the distance main gets
\* for v from bfs_distances from u is the one it gets for u from bfs_distances
\* from v, the sentinel included.
C7_Symmetric ==
    \A u, v \in DOMAIN results :
        distance_or_max(results[u], v) = distance_or_max(results[v], u)

\* both calls have returned for two vertices two edges apart
C7_Witness ==
    \E u, v \in DOMAIN results :
        /\ u # v
        /\ distance_or_max(results[u], v).hops = 2
        /\ distance_or_max(results[v], u).hops = 2

C9_MeanDegree ==
    (graph # EmptyMap /\ pc = "exit") =>
        /\ avg_degree.kind = "finite"
        /\ avg_degree.num * Cardinality(DOMAIN graph)
              = avg_degree.den * Cardinality(Entries(graph))
        /\ (graph = build_adjacency_list(<< <<1, 2>>, <<2, 3>> >>)
              => avg_degree = [kind |-> "finite", num |-> 4, den |-> 3])

\* average_degree has returned for a list in which a vertex is no key
C9_Witness ==
    /\ pc = "exit"
    /\ Cardinality(DOMAIN graph) = 2
    /\ avg_degree.kind = "finite"
    /\ avg_degree.num = 3 /\ avg_degree.den = 2

====
